---- MODULE Spec2Model ----
(***************************************************************************)
(* toy-npm (src/toy-npm.js): a minimal package manager client.             *)
(*                                                                         *)
(* The model follows one project directory through a sequence of command   *)
(* line invocations (one node process at a time).  The state is what       *)
(* survives between invocations -- toy-package.json, toy-package-lock.json *)
(* and toy_node_modules -- plus, for the running process, the install      *)
(* pipelines (one per installPackage call), what it printed, and whether   *)
(* it was terminated by an uncaught error.                                 *)
(*                                                                         *)
(* JavaScript runs every callback to completion, so every action below is  *)
(* one synchronous segment of the code: from the arrival of an I/O result  *)
(* to the next await.                                                      *)
(***************************************************************************)
EXTENDS Integers, Sequences, FiniteSets, TLC

VARIABLES
    manifest,   \* toy-package.json
    lock,       \* toy-package-lock.json
    dirs,       \* toy_node_modules/<name>
    argv,       \* command line of the current (or last) process
    tasks,      \* install pipelines of the current (or last) process
    stdout,     \* what the process wrote with console.log
    stderr,     \* what the process wrote with console.error
    crashed,    \* the process was ended by an uncaught error
    ncmds       \* number of processes started so far

vars == <<manifest, lock, dirs, argv, tasks, stdout, stderr, crashed, ncmds>>

(***************************************************************************)
(* Bounds                                                                  *)
(***************************************************************************)
MaxCmds == 3            \* command line invocations in one behaviour
MaxTotalPackages == 17  \* packages in a manifest under SpecLimit

(***************************************************************************)
(* The registry (read only).  Package "a" has two versions, "b" has one.   *)
(***************************************************************************)
Names == {"a", "b"}

RegVersions(n) == IF n = "a" THEN {"1.0.0", "2.0.0"} ELSE {"1.0.0"}

RegLatest(n) == IF n = "a" THEN "2.0.0" ELSE "1.0.0"

AllVersions == UNION {RegVersions(n) : n \in Names}

\* What a caller may ask for: nothing (""), the tag, or a version token
\* ("9.9.9" is in no package's version mapping).
Requests == {"", "latest", "1.0.0", "2.0.0", "9.9.9"}

getPackageDataLatest(n, v) ==
    [version |-> RegLatest(n),
     dist |-> [tarball |-> <<"tarball", n, RegLatest(n)>>, shasum |-> <<"shasum", n, RegLatest(n)>>]]

\* GET <registry>/<name>/<version>: the document of one version.
getPackageData(n, v) ==
    [version |-> v, dist |-> [tarball |-> <<"tarball", n, v>>, shasum |-> <<"shasum", n, v>>]]

(***************************************************************************)
(* JSON objects with string keys, in insertion order: a sequence of        *)
(* <<key, value>> pairs without repeated keys.                             *)
(***************************************************************************)
Keys(o) == [i \in 1..Len(o) |-> o[i][1]]

KeySet(o) == {o[i][1] : i \in 1..Len(o)}

Has(o, k) == k \in KeySet(o)

Get(o, k) == o[CHOOSE i \in 1..Len(o) : o[i][1] = k][2]

PutAppends(o, k, v) == Append(o, <<k, v>>)

\* o[k] = v: an existing key keeps its place, a new key goes last.
Put(o, k, v) ==
    IF Has(o, k)
    THEN [i \in 1..Len(o) |-> IF o[i][1] = k THEN <<k, v>> ELSE o[i]]
    ELSE Append(o, <<k, v>>)

\* delete o[k]
Del(o, k) == SelectSeq(o, LAMBDA e : e[1] # k)

(***************************************************************************)
(* The files.                                                              *)
(***************************************************************************)
NoManifest == [exists |-> FALSE, name |-> "", dependencies |-> <<>>, devDependencies |-> <<>>]

NoLock == [exists |-> FALSE, data |-> <<>>]

\* A package directory: the versions whose files were extracted into it,
\* the version extracted last (whose package.json and colliding files are
\* the ones on disk) and the tarballs <name>-<version>.tgz lying in it.
NoDir == [exists |-> FALSE, files |-> {}, version |-> "", tgz |-> {}]

\* fs.mkdirSync(packagePath, { recursive: true })
mkdirSync(d, n) == [d EXCEPT ![n].exists = TRUE]

\* tar.x({ file, cwd: packagePath, strip: 1 }): nothing is cleared first.
extract(d, n, v) == [d EXCEPT ![n].files = @ \cup {v}, ![n].version = v]

unlinkSyncNothing(d, n, v) == d

\* fs.unlinkSync(<n>-<v>.tgz)
unlinkSync(d, n, v) == [d EXCEPT ![n].tgz = @ \ {v}]

updateToyPackageJsonFromDefault(m, packageName, version, isDevDependency) ==
    LET toyPackageJson == [exists |-> TRUE, name |-> "toy-npm",
                           dependencies |-> <<>>, devDependencies |-> <<>>]
    IN  IF isDevDependency
        THEN [toyPackageJson EXCEPT !.devDependencies = Put(@, packageName, version)]
        ELSE [toyPackageJson EXCEPT !.dependencies = Put(@, packageName, version)]

updateToyPackageJson(m, packageName, version, isDevDependency) ==
    LET toyPackageJson ==
            IF m.exists THEN m
            ELSE [exists |-> TRUE, name |-> "toy-npm",
                  dependencies |-> <<>>, devDependencies |-> <<>>]
    IN  IF isDevDependency
        THEN [toyPackageJson EXCEPT !.devDependencies = Put(@, packageName, version)]
        ELSE [toyPackageJson EXCEPT !.dependencies = Put(@, packageName, version)]

removeFromDependenciesOnly(m, packageName) ==
    IF ~m.exists THEN m
    ELSE [m EXCEPT !.dependencies = Del(@, packageName)]

removeFromToyPackageJson(m, packageName) ==
    IF ~m.exists THEN m
    ELSE [m EXCEPT !.dependencies = Del(@, packageName),
                   !.devDependencies = Del(@, packageName)]

\* An upsert whose write is based on a file read before the other writers
\* wrote (here: before any did).
updateToyPackageLockJsonStale(l, packageName, packageInfo) ==
    [exists |-> TRUE, data |-> <<<<packageName, packageInfo>>>>]

updateToyPackageLockJson(l, packageName, packageInfo) ==
    LET lockfileData == IF l.exists THEN l.data ELSE <<>>
    IN  [exists |-> TRUE, data |-> Put(lockfileData, packageName, packageInfo)]

removeFromLockNothing(l, packageName) == l

removePackageFromToyPackageLockJson(l, packageName) ==
    IF l.exists /\ Has(l.data, packageName)
    THEN [l EXCEPT !.data = Del(@, packageName)]
    ELSE l

\* The part of the state the synchronous uninstall code works on.
World == [manifest |-> manifest, lock |-> lock, dirs |-> dirs, stdout |-> stdout]

uninstallPackageUnchecked(w, packageName) ==
    [w EXCEPT !.dirs[packageName] = NoDir,
              !.manifest = removeFromToyPackageJson(@, packageName),
              !.stdout = @ \cup {<<"Uninstalled", packageName>>},
              !.lock = removePackageFromToyPackageLockJson(@, packageName)]

uninstallPackage(w, packageName) ==
    IF ~w.dirs[packageName].exists
    THEN [w EXCEPT !.stdout = @ \cup {<<"Package not found", packageName>>}]
    ELSE [w EXCEPT !.dirs[packageName] = NoDir,
                   !.manifest = removeFromToyPackageJson(@, packageName),
                   !.stdout = @ \cup {<<"Uninstalled", packageName>>},
                   !.lock = removePackageFromToyPackageLockJson(@, packageName)]

RECURSIVE UninstallEach(_, _)
UninstallEach(w, names) ==
    IF names = <<>> THEN w
    ELSE UninstallEach(uninstallPackage(w, Head(names)), Tail(names))

uninstallAllDependenciesOnly(w) ==
    IF ~w.manifest.exists
    THEN [w EXCEPT !.stdout = @ \cup {<<"toy-package.json not found.">>}]
    ELSE UninstallEach(w, Keys(w.manifest.dependencies))

\* Every callback of the two maps runs uninstallPackage (which is
\* synchronous) before the next one is created.
uninstallAllPackages(w) ==
    IF ~w.manifest.exists
    THEN [w EXCEPT !.stdout = @ \cup {<<"toy-package.json not found.">>}]
    ELSE UninstallEach(w, Keys(w.manifest.dependencies) \o Keys(w.manifest.devDependencies))

initToyPackageJsonOverwrites(w) ==
    [w EXCEPT !.manifest = [exists |-> TRUE, name |-> "toy-project",
                            dependencies |-> <<>>, devDependencies |-> <<>>],
              !.stdout = @ \cup {<<"Created toy-package.json with default values.">>}]

initToyPackageJson(w) ==
    IF w.manifest.exists
    THEN [w EXCEPT !.stdout = @ \cup {<<"toy-package.json already exists.">>}]
    ELSE [w EXCEPT !.manifest = [exists |-> TRUE, name |-> "toy-project",
                                 dependencies |-> <<>>, devDependencies |-> <<>>],
                   !.stdout = @ \cup {<<"Created toy-package.json with default values.">>}]

(***************************************************************************)
(* Install pipelines.  pc is the await a pipeline is suspended at:         *)
(*   queued      waiting in the limiter's queue                            *)
(*   metadata    fetchPackageMetadata                                      *)
(*   tarball     axios.get(tarballUrl)                                     *)
(*   writing     the stream is piped into <name>-<version>.tgz             *)
(*   extracting  tar.x                                                     *)
(*   lockfetch   getPackageData                                            *)
(*   done        installPackage's promise is resolved                      *)
(*   rejected    installPackage's promise is rejected                      *)
(*   unhandled   an error was thrown where nothing handles it: the promise *)
(*               of installPackage is never settled                        *)
(***************************************************************************)
InFlight == {"metadata", "tarball", "writing", "extracting", "lockfetch"}

Settled == {"done", "rejected"}

Task(n, v, dev) == [name |-> n, version |-> v, isDev |-> dev, pc |-> "queued", resolved |-> ""]

resolvedVersionAlwaysLatest(packageName, version) == RegLatest(packageName)

\* downloadPackage: the version the request resolves to.
resolvedVersion(packageName, version) ==
    IF version = "latest" \/ version = "" THEN RegLatest(packageName) ELSE version

versionExistsAlways(packageName, version) == TRUE

\* downloadPackage: metadata.versions[resolvedVersion]
versionExists(packageName, version) == version \in RegVersions(packageName)

installedVersionAsRequested(t) == t.version

\* installPackage: version = packageStream.resolvedVersion, the version used
\* for the tarball's name, toy-package.json and getPackageData.
installedVersion(t) == t.resolved

\* Math.min(Math.ceil(totalPackages / 2), 8)
concurrencyLimitNotHalved(totalPackages) ==
    IF totalPackages < 8 THEN totalPackages ELSE 8

concurrencyLimit(totalPackages) ==
    LET half == (totalPackages + 1) \div 2
    IN  IF half < 8 THEN half ELSE 8

\* p-limit's activeCount: started functions whose promise has not settled.
activeCount(ts) == Cardinality({i \in 1..Len(ts) : ts[i].pc \in InFlight \cup {"unhandled"}})

hasFreeSlot(ts, concurrency) == activeCount(ts) < concurrency

\* p-limit: the queue is served in order while activeCount < concurrency.
\* A started function runs up to its first await (pc = "metadata").
RECURSIVE pLimitRun(_, _)
pLimitRun(ts, concurrency) ==
    LET queue == {i \in 1..Len(ts) : ts[i].pc = "queued"}
    IN  IF queue # {} /\ hasFreeSlot(ts, concurrency)
        THEN LET i == CHOOSE j \in queue : \A k \in queue : j <= k
             IN  pLimitRun([ts EXCEPT ![i].pc = "metadata"], concurrency)
        ELSE ts

\* The directories made by the installPackage calls that ran from ts to ts2.
MkDirs(d, ts, ts2) ==
    [n \in Names |->
        IF \E i \in 1..Len(ts) : ts[i].name = n /\ ts[i].pc = "queued" /\ ts2[i].pc # "queued"
        THEN [d[n] EXCEPT !.exists = TRUE]
        ELSE d[n]]

(***************************************************************************)
(* The process.                                                            *)
(***************************************************************************)
NoArgs == [verb |-> "none", name |-> "", version |-> "", isDev |-> FALSE]

Init ==
    /\ manifest = NoManifest
    /\ lock = NoLock
    /\ dirs = [n \in Names |-> NoDir]
    /\ argv = NoArgs
    /\ tasks = <<>>
    /\ stdout = {}
    /\ stderr = {}
    /\ crashed = FALSE
    /\ ncmds = 0

\* node keeps the process alive while I/O is pending.
Running == ~crashed /\ \E i \in 1..Len(tasks) : tasks[i].pc \in InFlight

ExitCode == IF crashed THEN 1 ELSE 0

\* A new process: node toy-npm.js <args>
Launch(args) ==
    /\ ~Running
    /\ ncmds < MaxCmds
    /\ ncmds' = ncmds + 1
    /\ argv' = args
    /\ crashed' = FALSE

\* node toy-npm.js init
MainInit ==
    /\ Launch([NoArgs EXCEPT !.verb = "init"])
    /\ LET w == initToyPackageJson([World EXCEPT !.stdout = {}])
       IN  /\ manifest' = w.manifest
           /\ stdout' = w.stdout
    /\ tasks' = <<>>
    /\ stderr' = {}
    /\ UNCHANGED <<lock, dirs>>

\* node toy-npm.js uninstall <name>
MainUninstall(packageName) ==
    /\ Launch([NoArgs EXCEPT !.verb = "uninstall", !.name = packageName])
    /\ LET w == uninstallPackage([World EXCEPT !.stdout = {}], packageName)
       IN  /\ manifest' = w.manifest
           /\ lock' = w.lock
           /\ dirs' = w.dirs
           /\ stdout' = w.stdout
    /\ tasks' = <<>>
    /\ stderr' = {}

\* node toy-npm.js uninstall
MainUninstallAll ==
    /\ Launch([NoArgs EXCEPT !.verb = "uninstallAll"])
    /\ LET w == uninstallAllPackages([World EXCEPT !.stdout = {}])
       IN  /\ manifest' = w.manifest
           /\ lock' = w.lock
           /\ dirs' = w.dirs
           /\ stdout' = w.stdout
    /\ tasks' = <<>>
    /\ stderr' = {}

\* node toy-npm.js install <name> [version] [--save-dev]: installPackage
\* runs up to its first await.
MainInstall(packageName, version, isDevDependency) ==
    /\ Launch([verb |-> "install", name |-> packageName, version |-> version,
               isDev |-> isDevDependency])
    /\ tasks' = <<[Task(packageName, version, isDevDependency) EXCEPT !.pc = "metadata"]>>
    /\ dirs' = mkdirSync(dirs, packageName)
    /\ stdout' = {}
    /\ stderr' = {}
    /\ UNCHANGED <<manifest, lock>>

\* The two maps without the third argument of installPackage.
ManifestTasksAllRegular(m) ==
    [i \in 1..Len(m.dependencies) |->
        Task(m.dependencies[i][1], m.dependencies[i][2], FALSE)]
    \o
    [i \in 1..Len(m.devDependencies) |->
        Task(m.devDependencies[i][1], m.devDependencies[i][2], FALSE)]

\* Object.entries of the two groups, dependencies first.
ManifestTasks(m) ==
    [i \in 1..Len(m.dependencies) |->
        Task(m.dependencies[i][1], m.dependencies[i][2], FALSE)]
    \o
    [i \in 1..Len(m.devDependencies) |->
        Task(m.devDependencies[i][1], m.devDependencies[i][2], TRUE)]

\* An install from the manifest that reads toy-package.json without looking
\* whether it exists: readFileSync throws, main().catch prints the error.
MainInstallAllUnchecked ==
    /\ Launch([NoArgs EXCEPT !.verb = "installAll"])
    /\ ~manifest.exists
    /\ stdout' = {}
    /\ stderr' = {<<"Error", "ENOENT">>}
    /\ tasks' = <<>>
    /\ UNCHANGED <<manifest, lock, dirs>>

\* node toy-npm.js: installFromToyPackageJson up to its await.
MainInstallAll ==
    /\ Launch([NoArgs EXCEPT !.verb = "installAll"])
    /\ UNCHANGED <<manifest, lock>>
    /\ IF ~manifest.exists
       THEN /\ stdout' = {<<"toy-package.json not found.">>}
            /\ stderr' = {}
            /\ tasks' = <<>>
            /\ UNCHANGED dirs
       ELSE LET ts == ManifestTasks(manifest)
                limit == concurrencyLimit(Len(ts))
            IN  IF limit < 1
                THEN \* pLimit(0) throws a TypeError, which main().catch prints
                     /\ stdout' = {}
                     /\ stderr' = {<<"Error", "Expected concurrency to be a number from 1 and up">>}
                     /\ tasks' = <<>>
                     /\ UNCHANGED dirs
                ELSE LET ts2 == pLimitRun(ts, limit)
                     IN  /\ tasks' = ts2
                         /\ dirs' = MkDirs(dirs, ts, ts2)
                         /\ stdout' = {}
                         /\ stderr' = {}

(***************************************************************************)
(* The steps of a pipeline.                                                *)
(***************************************************************************)
\* What main (one install) or the limited function (install from the
\* manifest) prints after installPackage.
InstalledMessage(t) ==
    IF argv.verb = "install"
    THEN <<"Installed", t.name, IF argv.version = "" THEN "latest" ELSE argv.version, FALSE>>
    ELSE <<"Installed", t.name, t.version, t.isDev>>

\* installPackage's promise settles.  Under the limiter the next queued
\* function is started; Promise.all rejects with the first rejection, which
\* main().catch prints at once.
Settle(ts, i, outcome, error) ==
    LET ts1 == [ts EXCEPT ![i].pc = outcome]
        ts2 == IF argv.verb = "installAll"
               THEN pLimitRun(ts1, concurrencyLimit(Len(ts1)))
               ELSE ts1
    IN  /\ tasks' = ts2
        /\ dirs' = MkDirs(dirs, ts1, ts2)
        /\ stdout' = IF outcome = "done" THEN stdout \cup {InstalledMessage(ts[i])} ELSE stdout
        /\ stderr' = IF outcome = "rejected" /\ stderr = {}
                     THEN {<<"Error", error>>}
                     ELSE stderr

\* An error nothing handles (a rejection inside the 'finish' callback, where
\* the promise has no reject path).  What node does with it depends on its
\* unhandled-rejections mode: warn and go on, the pipeline pending for ever,
\* or end the process.  A process that went on after one is in the first mode.
Unhandled(ts, i, error) ==
    \/ /\ tasks' = [ts EXCEPT ![i].pc = "unhandled"]
       /\ UNCHANGED <<crashed, stderr>>
    \/ /\ \A j \in 1..Len(ts) : ts[j].pc # "unhandled"
       /\ tasks' = [ts EXCEPT ![i].pc = "unhandled"]
       /\ crashed' = TRUE
       /\ stderr' = stderr \cup {<<"Uncaught", error>>}

At(i, pc) == Running /\ i \in 1..Len(tasks) /\ tasks[i].pc = pc

\* downloadPackage after fetchPackageMetadata returned.
MetadataReturns(i) ==
    /\ At(i, "metadata")
    /\ LET v == resolvedVersion(tasks[i].name, tasks[i].version)
       IN  IF ~versionExists(tasks[i].name, v)
           THEN Settle(tasks, i, "rejected", "Version not found")
           ELSE /\ tasks' = [tasks EXCEPT ![i].pc = "tarball", ![i].resolved = v]
                /\ UNCHANGED <<dirs, stdout, stderr>>
    /\ UNCHANGED <<manifest, lock, argv, crashed, ncmds>>

MetadataFails(i) ==
    /\ At(i, "metadata")
    /\ Settle(tasks, i, "rejected", "Network error")
    /\ UNCHANGED <<manifest, lock, argv, crashed, ncmds>>

\* installPackage after downloadPackage returned: the write stream creates
\* <name>-<version>.tgz.
TarballReturns(i) ==
    /\ At(i, "tarball")
    /\ tasks' = [tasks EXCEPT ![i].pc = "writing"]
    /\ dirs' = [dirs EXCEPT ![tasks[i].name].tgz = @ \cup {installedVersion(tasks[i])}]
    /\ UNCHANGED <<manifest, lock, argv, stdout, stderr, crashed, ncmds>>

TarballFails(i) ==
    /\ At(i, "tarball")
    /\ Settle(tasks, i, "rejected", "Network error")
    /\ UNCHANGED <<manifest, lock, argv, crashed, ncmds>>

\* A pipeline that records the package in toy-package.json at 'finish',
\* before tar.x.
WriteFinishesAndRecords(i) ==
    /\ At(i, "writing")
    /\ tasks' = [tasks EXCEPT ![i].pc = "extracting"]
    /\ manifest' = updateToyPackageJson(manifest, tasks[i].name, installedVersion(tasks[i]),
                                        tasks[i].isDev)
    /\ UNCHANGED <<lock, dirs, argv, stdout, stderr, crashed, ncmds>>

\* 'finish': tar.x is called.
WriteFinishes(i) ==
    /\ At(i, "writing")
    /\ tasks' = [tasks EXCEPT ![i].pc = "extracting"]
    /\ UNCHANGED <<manifest, lock, dirs, argv, stdout, stderr, crashed, ncmds>>

\* An 'error' event of a stream that has no 'error' listener is thrown.
WriteFails(i) ==
    /\ At(i, "writing")
    /\ crashed' = TRUE
    /\ tasks' = [tasks EXCEPT ![i].pc = "unhandled"]
    /\ stderr' = stderr \cup {<<"Uncaught", "Stream error">>}
    /\ UNCHANGED <<manifest, lock, dirs, argv, stdout, ncmds>>

\* The callback of tar.x(...).then: unlink, update toy-package.json, call
\* getPackageData.  unlinkSync throws when the tarball is gone (removed by
\* another pipeline of the same name and version).
ExtractReturns(i) ==
    /\ At(i, "extracting")
    /\ LET n == tasks[i].name
           v == installedVersion(tasks[i])
           extracted == tasks[i].resolved   \* the tarball's content
       IN  IF v \in dirs[n].tgz
           THEN /\ dirs' = unlinkSync(extract(dirs, n, extracted), n, v)
                /\ manifest' = updateToyPackageJson(manifest, n, v, tasks[i].isDev)
                /\ tasks' = [tasks EXCEPT ![i].pc = "lockfetch"]
                /\ UNCHANGED <<stderr, crashed>>
           ELSE /\ dirs' = extract(dirs, n, extracted)
                /\ Unhandled(tasks, i, "ENOENT")
                /\ UNCHANGED manifest
    /\ UNCHANGED <<lock, argv, stdout, ncmds>>

\* A pipeline that records the package before it extracts it.
ExtractFailsAfterManifest(i) ==
    /\ At(i, "extracting")
    /\ manifest' = updateToyPackageJson(manifest, tasks[i].name, installedVersion(tasks[i]),
                                        tasks[i].isDev)
    /\ Unhandled(tasks, i, "Extraction failed")
    /\ UNCHANGED <<lock, dirs, argv, stdout, ncmds>>

\* tar.x rejects: the tarball stays.
ExtractFails(i) ==
    /\ At(i, "extracting")
    /\ Unhandled(tasks, i, "Extraction failed")
    /\ UNCHANGED <<manifest, lock, dirs, argv, stdout, ncmds>>

\* getPackageData returned: update toy-package-lock.json, resolve().
LockFetchReturns(i) ==
    /\ At(i, "lockfetch")
    /\ LET packageData == getPackageData(tasks[i].name, installedVersion(tasks[i]))
           installedPackageInfo ==
               [version |-> packageData.version,
                resolved |-> packageData.dist.tarball,
                integrity |-> packageData.dist.shasum]
       IN  lock' = updateToyPackageLockJson(lock, tasks[i].name, installedPackageInfo)
    /\ Settle(tasks, i, "done", "")
    /\ UNCHANGED <<manifest, argv, crashed, ncmds>>

LockFetchFails(i) ==
    /\ At(i, "lockfetch")
    /\ Unhandled(tasks, i, "Network error")
    /\ UNCHANGED <<manifest, lock, dirs, argv, stdout, ncmds>>

Pipelines == 1..Len(tasks)

Next ==
    \/ MainInit
    \/ \E n \in Names, v \in Requests, d \in BOOLEAN : MainInstall(n, v, d)
    \/ MainInstallAll
    \/ \E n \in Names : MainUninstall(n)
    \/ MainUninstallAll
    \/ \E i \in Pipelines : MetadataReturns(i)
    \/ \E i \in Pipelines : MetadataFails(i)
    \/ \E i \in Pipelines : TarballReturns(i)
    \/ \E i \in Pipelines : TarballFails(i)
    \/ \E i \in Pipelines : WriteFinishes(i)
    \/ \E i \in Pipelines : WriteFails(i)
    \/ \E i \in Pipelines : ExtractReturns(i)
    \/ \E i \in Pipelines : ExtractFails(i)
    \/ \E i \in Pipelines : LockFetchReturns(i)
    \/ \E i \in Pipelines : LockFetchFails(i)

Spec == Init /\ [][Next]_vars

(***************************************************************************)
(* SpecCheckout: one command in a project whose toy-package.json (and      *)
(* possibly toy-package-lock.json) were written by earlier runs and whose  *)
(* toy_node_modules is not there (a fresh checkout, or the directory was   *)
(* deleted).                                                               *)
(***************************************************************************)
\* The groups the program writes: distinct names, each with one of the
\* versions the registry has for it.
WrittenGroups ==
    {<<>>}
    \cup {<<<<n, v>>>> : n \in Names, v \in AllVersions}
    \cup {<<<<n, v>>, <<m, w>>>> : n \in Names, m \in Names, v \in AllVersions, w \in AllVersions}

IsWrittenGroup(g) ==
    /\ \A i \in 1..Len(g) : g[i][2] \in RegVersions(g[i][1])
    /\ \A i, j \in 1..Len(g) : g[i][1] = g[j][1] => i = j

\* The lock file after every package of m was installed (dependencies
\* first).
RECURSIVE LockOf(_, _)
LockOf(l, ts) ==
    IF ts = <<>> THEN l
    ELSE LET d == getPackageData(Head(ts).name, Head(ts).version)
         IN  LockOf(updateToyPackageLockJson(l, Head(ts).name,
                        [version |-> d.version, resolved |-> d.dist.tarball,
                         integrity |-> d.dist.shasum]),
                    Tail(ts))

InitCheckout ==
    /\ manifest \in {[exists |-> TRUE, name |-> "toy-npm", dependencies |-> g, devDependencies |-> h] :
                        g \in {x \in WrittenGroups : IsWrittenGroup(x)},
                        h \in {x \in WrittenGroups : IsWrittenGroup(x)}}
    /\ lock \in {NoLock, LockOf(NoLock, ManifestTasks(manifest))}
    /\ dirs = [n \in Names |-> NoDir]
    /\ argv = NoArgs
    /\ tasks = <<>>
    /\ stdout = {}
    /\ stderr = {}
    /\ crashed = FALSE
    /\ ncmds = MaxCmds - 1

SpecCheckout == InitCheckout /\ [][Next]_vars

(***************************************************************************)
(* SpecLimit: the limiter of installFromToyPackageJson alone, for every    *)
(* number of packages up to MaxTotalPackages.  A limited function is       *)
(* started by the limiter and settles later; the limiter treats a resolved *)
(* and a rejected promise alike, and a promise that never settles is one   *)
(* whose LimitedSettles step is never taken.                               *)
(***************************************************************************)
LimitCreate(totalPackages) ==
    /\ argv.verb = "none"
    /\ argv' = [NoArgs EXCEPT !.verb = "installAll"]
    /\ LET limit == concurrencyLimit(totalPackages)
       IN  IF limit < 1
           THEN /\ tasks' = <<>>
                /\ stderr' = {<<"Error", "Expected concurrency to be a number from 1 and up">>}
           ELSE /\ tasks' = pLimitRun([i \in 1..totalPackages |-> Task("a", "1.0.0", FALSE)], limit)
                /\ UNCHANGED stderr
    /\ UNCHANGED <<manifest, lock, dirs, stdout, crashed, ncmds>>

LimitedSettles(i) ==
    /\ tasks[i].pc \in InFlight
    /\ tasks' = pLimitRun([tasks EXCEPT ![i].pc = "done"], concurrencyLimit(Len(tasks)))
    /\ UNCHANGED <<manifest, lock, dirs, argv, stdout, stderr, crashed, ncmds>>

NextLimit ==
    \/ \E n \in 0..MaxTotalPackages : LimitCreate(n)
    \/ \E i \in Pipelines : LimitedSettles(i)

SpecLimit == Init /\ [][NextLimit]_vars

(***************************************************************************)
(* Properties                                                              *)
(***************************************************************************)
Group(m, isDev) == IF isDev THEN m.devDependencies ELSE m.dependencies

\* What the registry resolves a request to: its latest tag for "latest" or
\* no version, the requested version otherwise.
Expected(t) == IF t.version \in {"", "latest"} THEN RegLatest(t.name) ELSE t.version

\* Pipeline i signals success in this step.
Succeeds(i) ==
    /\ i \in 1..Len(tasks)
    /\ i \in 1..Len(tasks')
    /\ tasks[i].pc = "lockfetch"
    /\ tasks'[i].pc = "done"

StartedNotSettled == {i \in Pipelines : tasks[i].pc \in InFlight \cup {"unhandled"}}

C2_LockedAtResolvedVersion ==
    [][\A i \in 1..Len(tasks) :
          Succeeds(i) =>
              /\ lock'.exists
              /\ Has(lock'.data, tasks[i].name)
              /\ Get(lock'.data, tasks[i].name).version = Expected(tasks[i])
              /\ Expected(tasks[i]) \in RegVersions(tasks[i].name)
              /\ dirs'[tasks[i].name].exists
              /\ dirs'[tasks[i].name].files \cup dirs'[tasks[i].name].tgz # {}
              /\ Expected(tasks[i]) \in dirs'[tasks[i].name].files]_vars

C2_Witness ==
    \E i \in Pipelines :
        /\ tasks[i].pc = "done"
        /\ tasks[i].version = "1.0.0"
        /\ tasks[i].name = "a"
        /\ Get(lock.data, "a").version = "1.0.0"

\* C3: while the packages of a manifest with N entries are installed, the
\* pipelines started and not settled number at most min(ceil(N/2), 8).
C3_ConcurrencyCap ==
    argv.verb = "installAll" =>
        LET N == Len(tasks)
            inflight == Cardinality(StartedNotSettled)
        IN  /\ 2 * inflight <= N + 1
            /\ inflight <= 8

C3_Witness ==
    /\ argv.verb = "installAll"
    /\ Len(tasks) = 17
    /\ Cardinality(StartedNotSettled) = 8
    /\ \E i \in Pipelines : tasks[i].pc = "queued"
    /\ \E i \in Pipelines : tasks[i].pc = "done"

\* C4, as stated: installing from the manifest is reported as failed only
\* when every pipeline has settled.
C4_ReportsAfterAllSettled ==
    (argv.verb = "installAll" /\ \E m \in stderr : m[1] = "Error") =>
        \A i \in Pipelines : tasks[i].pc \in Settled

\* C5, as stated: when the process that installs from the manifest has run
\* to its end (no uncaught error ended it), every pipeline other than those
\* that failed themselves has installed and locked its package.
C5_SiblingsAreInstalled ==
    (argv.verb = "installAll" /\ ~Running /\ ~crashed) =>
        \A i \in Pipelines :
            \/ tasks[i].pc \in {"rejected", "unhandled"}
            \/ /\ tasks[i].pc = "done"
               /\ Has(lock.data, tasks[i].name)

\* C6: uninstalling a name whose directory exists removes the directory,
\* the name from both groups of the manifest and from the lock file, and
\* leaves every other name's directory and entries as they were.
C6_UninstallRemoves ==
    [][\A n \in Names :
          (argv'.verb = "uninstall" /\ argv'.name = n /\ ncmds' = ncmds + 1 /\ dirs[n].exists) =>
              /\ ~dirs'[n].exists
              /\ ~Has(manifest'.dependencies, n)
              /\ ~Has(manifest'.devDependencies, n)
              /\ ~Has(lock'.data, n)
              /\ \A m \in Names \ {n} : dirs'[m] = dirs[m]
              /\ manifest'.dependencies = SelectSeq(manifest.dependencies, LAMBDA e : e[1] # n)
              /\ manifest'.devDependencies = SelectSeq(manifest.devDependencies, LAMBDA e : e[1] # n)
              /\ lock'.data = SelectSeq(lock.data, LAMBDA e : e[1] # n)
              /\ manifest'.exists = manifest.exists
              /\ manifest'.name = manifest.name]_vars

C6_Witness ==
    /\ argv.verb = "uninstall"
    /\ <<"Uninstalled", argv.name>> \in stdout
    /\ ~dirs[argv.name].exists
    /\ \E m \in Names \ {argv.name} :
          /\ dirs[m].files # {}
          /\ Has(manifest.dependencies, m)
          /\ Has(lock.data, m)

\* C7: uninstalling a name whose directory does not exist changes neither
\* the manifest nor the lock file nor the module tree, and raises nothing.
C7_UninstallMissingIsNoOp ==
    [][\A n \in Names :
          (argv'.verb = "uninstall" /\ argv'.name = n /\ ncmds' = ncmds + 1 /\ ~dirs[n].exists) =>
              /\ manifest' = manifest
              /\ lock' = lock
              /\ dirs' = dirs
              /\ stderr' = {}
              /\ ~crashed'
              /\ stdout' = {<<"Package not found", n>>}]_vars

C7_Witness ==
    /\ argv.verb = "uninstall"
    /\ <<"Package not found", argv.name>> \in stdout
    /\ Has(manifest.dependencies, argv.name)
    /\ Has(manifest.devDependencies, argv.name)
    /\ Has(lock.data, argv.name)

\* The process installs one package at an explicit version the registry
\* does not have.
AbsentVersionRequested(a) ==
    /\ a.verb = "install"
    /\ a.version \notin {"", "latest"}
    /\ a.version \notin RegVersions(a.name)

\* C8, as stated: no step of an install of an explicit version that the
\* metadata does not have changes the module tree, the manifest or the lock
\* file.
C8_NoFilesystemWrites ==
    [][AbsentVersionRequested(argv') =>
          /\ manifest' = manifest
          /\ lock' = lock
          /\ dirs' = dirs]_vars

\* C8, amended: such an install never succeeds, fails with the not-found
\* error once the metadata has arrived, and changes neither the manifest nor
\* the lock file nor the content of any directory; its only write is the
\* creation of the package's own directory when that did not exist.
C8_OnlyDirectoryCreated ==
    [][AbsentVersionRequested(argv') =>
          /\ manifest' = manifest
          /\ lock' = lock
          /\ dirs' = [dirs EXCEPT ![argv'.name].exists = TRUE]
          /\ tasks'[1].pc \in {"metadata", "rejected"}
          /\ stdout' = {}
          /\ (\E i \in Pipelines : MetadataReturns(i)) =>
                 /\ tasks'[1].pc = "rejected"
                 /\ stderr' = {<<"Error", "Version not found">>}]_vars

C8_Witness ==
    /\ AbsentVersionRequested(argv)
    /\ tasks[1].pc = "rejected"
    /\ stderr = {<<"Error", "Version not found">>}
    /\ dirs[argv.name] = [NoDir EXCEPT !.exists = TRUE]
    /\ ~manifest.exists

\* C9: the version a pipeline has resolved is the registry's latest tag when
\* "latest" or no version was requested and the requested version otherwise;
\* it is a version of the package, never "latest".
C9_VersionResolution ==
    \A i \in Pipelines :
        tasks[i].pc \in {"tarball", "writing", "extracting", "lockfetch", "done"} =>
            /\ tasks[i].version \in {"", "latest"} => tasks[i].resolved = RegLatest(tasks[i].name)
            /\ tasks[i].version \notin {"", "latest"} => tasks[i].resolved = tasks[i].version
            /\ tasks[i].resolved # "latest"
            /\ tasks[i].resolved \in RegVersions(tasks[i].name)

C9_Witness ==
    /\ \E i \in Pipelines :
          tasks[i].pc = "done" /\ tasks[i].version = "" /\ tasks[i].resolved = "2.0.0"
    /\ \E n \in Names : Has(manifest.dependencies, n) /\ Get(manifest.dependencies, n) = "1.0.0"

UpdatesManifest(i) ==
    /\ i \in 1..Len(tasks)
    /\ i \in 1..Len(tasks')
    /\ tasks[i].pc = "extracting"
    /\ tasks'[i].pc = "lockfetch"

\* C11: after updateToyPackageJson(name, v, isDev) the file read back holds
\* name -> v in the group isDev selects; every other key of both groups
\* (their order included), the entry of name in the other group and the
\* project's own fields of an existing file are what they were.
C11_UpsertRoundTrip ==
    [][\A i \in Pipelines :
          UpdatesManifest(i) =>
              LET n == tasks[i].name
                  v == installedVersion(tasks[i])
                  dev == tasks[i].isDev
              IN  /\ manifest'.exists
                  /\ Has(Group(manifest', dev), n)
                  /\ Get(Group(manifest', dev), n) = v
                  /\ Del(Group(manifest', dev), n) = Del(Group(manifest, dev), n)
                  /\ Group(manifest', ~dev) = Group(manifest, ~dev)
                  /\ manifest.exists => manifest'.name = manifest.name]_vars

\* An upsert into a file made by init that holds the name in the other
\* group at another version.
C11_Witness ==
    \E i \in Pipelines :
        /\ tasks[i].pc = "lockfetch"
        /\ manifest.name = "toy-project"
        /\ Has(Group(manifest, ~tasks[i].isDev), tasks[i].name)
        /\ Get(Group(manifest, ~tasks[i].isDev), tasks[i].name) # tasks[i].resolved
        /\ Get(Group(manifest, tasks[i].isDev), tasks[i].name) = tasks[i].resolved

\* node toy-npm.js init is launched in this step.
InitCommand == argv'.verb = "init" /\ ncmds' = ncmds + 1

\* C12: init writes a fresh manifest with two empty groups only when there
\* is no manifest; when there is one it changes nothing, so a second init
\* keeps the first file and init never erases recorded dependencies.
C12_InitOnlyWhenMissing ==
    [][InitCommand =>
          /\ manifest.exists => manifest' = manifest
          /\ ~manifest.exists =>
                 /\ manifest'.exists
                 /\ manifest'.dependencies = <<>>
                 /\ manifest'.devDependencies = <<>>
          /\ lock' = lock
          /\ dirs' = dirs]_vars

\* init ran on a manifest that records a dependency, and printed that the
\* file exists.
C12_Witness ==
    /\ argv.verb = "init"
    /\ <<"toy-package.json already exists.">> \in stdout
    /\ manifest.exists
    /\ manifest.dependencies # <<>>

\* C13, as stated: when a pipeline signals success the package's module
\* directory holds no .tgz file, whatever was done to that name before.
C13_NoTarballAtSuccess ==
    [][\A i \in Pipelines :
          Succeeds(i) => dirs'[tasks[i].name].tgz = {}]_vars

\* C13, amended: when a pipeline signals success its own tarball is gone: a
\* .tgz in the directory is of another version (left by an earlier install
\* of that version that did not finish), or is the tarball of another
\* pipeline of this process for the same name that has not deleted it.
C13_OwnTarballDeleted ==
    [][\A i \in Pipelines :
          Succeeds(i) =>
              \A w \in dirs'[tasks[i].name].tgz :
                  \/ w # installedVersion(tasks[i])
                  \/ \E j \in Pipelines \ {i} :
                        /\ tasks'[j].name = tasks[i].name
                        /\ installedVersion(tasks'[j]) = w
                        /\ tasks'[j].pc \in {"writing", "extracting", "unhandled"}]_vars

\* A single install succeeded in a directory that holds the tarball an
\* earlier, failed install of another version left.
C13_Witness ==
    /\ argv.verb = "install"
    /\ tasks[1].pc = "done"
    /\ tasks[1].resolved \in dirs[argv.name].files
    /\ dirs[argv.name].tgz # {}
    /\ tasks[1].resolved \notin dirs[argv.name].tgz

\* C14, as stated: when an install command has ended, its exit status is
\* zero exactly when every pipeline it started signalled success; a failed
\* pipeline (a version the registry does not have, say) ends the process
\* with its error printed and a non-zero status.
C14_NonZeroExitOnFailure ==
    (argv.verb \in {"install", "installAll"} /\ tasks # <<>> /\ ~Running) =>
        /\ ExitCode = 0 <=> \A i \in Pipelines : tasks[i].pc = "done"
        /\ (\E i \in Pipelines : tasks[i].pc # "done") => stderr # {}

\* C15, as stated: a pipeline always ends settled.  Once every external step
\* it waited for has returned (it is neither queued nor suspended at an
\* await) its promise is resolved or rejected; a failure of the extraction
\* or of the lock step's re-fetch rejects it.
C15_SettlesOnceStepsReturn ==
    ~crashed =>
        \A i \in Pipelines : tasks[i].pc \in {"queued"} \cup InFlight \cup Settled

\* C16, as stated: when no command is running, every name of a manifest
\* group that was successfully installed (toy-package-lock.json holds an
\* entry for it: entries are written only as a pipeline signals success)
\* is locked at the version that is extracted on disk, also after a
\* re-install at another version and after an install whose lock step failed
\* once the manifest was updated.
C16_LockMatchesDisk ==
    ~Running =>
        \A n \in Names :
            (/\ Has(manifest.dependencies, n) \/ Has(manifest.devDependencies, n)
             /\ Has(lock.data, n))
            => Get(lock.data, n).version = dirs[n].version

\* toy-package.json and toy-package-lock.json hold what pipeline k wrote:
\* its name at its version in its group, and a lock entry for its name that
\* is its own or the one a later successful pipeline of the same name put
\* in its place.
ChangeKept(k) ==
    LET t == tasks[k]
    IN  /\ Has(Group(manifest, t.isDev), t.name)
        /\ Get(Group(manifest, t.isDev), t.name) = installedVersion(t)
        /\ Has(lock.data, t.name)
        /\ \E l \in Pipelines :
              /\ tasks[l].name = t.name
              /\ tasks[l].pc = "done"
              /\ Get(lock.data, t.name).version = installedVersion(tasks[l])

\* Pipelines i and j of one install from the manifest were started together
\* by the limiter (they ran concurrently), are for different names and have
\* both signalled success.
BothSucceeded(i, j) ==
    /\ argv.verb = "installAll"
    /\ i # j
    /\ i <= concurrencyLimit(Len(tasks))
    /\ j <= concurrencyLimit(Len(tasks))
    /\ tasks[i].name # tasks[j].name
    /\ tasks[i].pc = "done"
    /\ tasks[j].pc = "done"

StepBeforeManifest(i) ==
    /\ ncmds' = ncmds
    /\ i \in 1..Len(tasks)
    /\ i \in 1..Len(tasks')
    /\ tasks[i].pc \in {"metadata", "tarball", "writing", "extracting"}
    /\ tasks'[i] # tasks[i]
    /\ tasks'[i].pc # "lockfetch"

\* C18: a pipeline that fails in steps 2 to 4 has not touched the manifest
\* or the lock file: none of its steps up to and including the failing one
\* changes either file.
C18_FailureBeforeManifestWritesNothing ==
    [][\A i \in Pipelines :
          StepBeforeManifest(i) => manifest' = manifest /\ lock' = lock]_vars

\* An install failed in extraction (its tarball is still there) in a project
\* whose two files exist; the manifest does not list the package.
C18_Witness ==
    \E i \in Pipelines :
        /\ ~crashed
        /\ tasks[i].pc = "unhandled"
        /\ tasks[i].resolved \in dirs[tasks[i].name].tgz
        /\ tasks[i].resolved \notin dirs[tasks[i].name].files
        /\ manifest.exists
        /\ lock.exists
        /\ ~Has(manifest.dependencies, tasks[i].name)
        /\ ~Has(manifest.devDependencies, tasks[i].name)

\* C19, as stated: the limit an install from the manifest computes from the
\* manifest's N entries is min(ceil(N/2), 8), the least l with 2l >= N or 8,
\* and is one of 1..8, for a manifest with two empty groups too.
C19_LimitBetweenOneAndEight ==
    (argv.verb = "installAll" /\ manifest.exists) =>
        LET N == Len(manifest.dependencies) + Len(manifest.devDependencies)
            limit == concurrencyLimit(N)
        IN  /\ limit \in 1..8
            /\ limit = 8 \/ (2 * limit >= N /\ 2 * (limit - 1) < N)

\* The place of a suspension point in installPackage.
Stage(pc) ==
    CASE pc = "queued" -> 0
      [] pc = "metadata" -> 1
      [] pc = "tarball" -> 2
      [] pc = "writing" -> 3
      [] pc = "extracting" -> 4
      [] pc = "lockfetch" -> 5
      [] pc = "done" -> 6
      [] OTHER -> 7

\* C20: a pipeline goes through its steps in the one order directory
\* ensured, version resolved, tarball downloaded, extracted and tarball
\* deleted, manifest updated, lock updated, success.  While a command runs,
\* a pipeline moves one step forward or ends in failure; its directory
\* exists from its start; the manifest is written only in the step that
\* follows a successful extraction and the deletion of the tarball; the lock
\* file is written only by a pipeline whose manifest entry is written, in
\* the step in which it signals success.
C20_StepsInOrder ==
    [][ncmds' = ncmds =>
          /\ Len(tasks') = Len(tasks)
          /\ \A i \in Pipelines :
                /\ tasks'[i].pc # tasks[i].pc =>
                       \/ tasks'[i].pc \in {"rejected", "unhandled"} /\ tasks[i].pc \in InFlight
                       \/ Stage(tasks'[i].pc) = Stage(tasks[i].pc) + 1
                /\ tasks'[i].pc \in InFlight => dirs'[tasks[i].name].exists
                /\ Stage(tasks'[i].pc) \in 2..6 => tasks'[i].resolved \in RegVersions(tasks[i].name)
                /\ UpdatesManifest(i) =>
                       /\ installedVersion(tasks[i]) \in dirs'[tasks[i].name].files
                       /\ installedVersion(tasks[i]) \notin dirs'[tasks[i].name].tgz
                /\ Succeeds(i) =>
                       /\ Has(Group(manifest, tasks[i].isDev), tasks[i].name)
                       /\ Get(Group(manifest, tasks[i].isDev), tasks[i].name) = installedVersion(tasks[i])
                       /\ Has(lock'.data, tasks[i].name)
          /\ manifest' # manifest => \E i \in Pipelines : UpdatesManifest(i)
          /\ lock' # lock => \E i \in Pipelines : Succeeds(i)]_vars

\* A pipeline went through every step: its files are extracted, its tarball
\* is gone, both files hold its entry and its success was printed.
C20_Witness ==
    \E i \in Pipelines :
        /\ tasks[i].pc = "done"
        /\ tasks[i].resolved \in dirs[tasks[i].name].files
        /\ dirs[tasks[i].name].tgz = {}
        /\ Has(Group(manifest, tasks[i].isDev), tasks[i].name)
        /\ Has(lock.data, tasks[i].name)
        /\ InstalledMessage(tasks[i]) \in stdout

\* node toy-npm.js uninstall (no name) is launched in this step.
UninstallAllCommand == argv'.verb = "uninstallAll" /\ ncmds' = ncmds + 1

\* C21: after uninstall-all on an existing manifest, every name that was in
\* one of its groups and had a module directory has no directory, is in
\* neither group and is not in the lock file; a name in both groups raises
\* no error.
C21_UninstallAllRemovesListed ==
    [][(UninstallAllCommand /\ manifest.exists) =>
          /\ \A n \in Names :
                ((Has(manifest.dependencies, n) \/ Has(manifest.devDependencies, n))
                 /\ dirs[n].exists)
                => /\ dirs'[n] = NoDir
                   /\ ~Has(manifest'.dependencies, n)
                   /\ ~Has(manifest'.devDependencies, n)
                   /\ ~Has(lock'.data, n)
          /\ stderr' = {}
          /\ ~crashed']_vars

\* Uninstall-all ran on a manifest that listed a name in both groups: the
\* first callback removed it, the second found no directory.
C21_Witness ==
    /\ argv.verb = "uninstallAll"
    /\ \E n \in Names :
          /\ <<"Uninstalled", n>> \in stdout
          /\ <<"Package not found", n>> \in stdout
          /\ ~dirs[n].exists
    /\ manifest.exists
    /\ lock.exists
    /\ stderr = {}

\* node toy-npm.js (no verb) is launched in this step.
InstallAllCommand == argv'.verb = "installAll" /\ ncmds' = ncmds + 1

\* C22: an install from the manifest and an uninstall-all launched when
\* there is no toy-package.json print that it was not found and do nothing
\* else: no error, no pipeline, the module directories and the lock file as
\* they were, and still no manifest.
C22_NoManifestIsSoftNoOp ==
    [][((InstallAllCommand \/ UninstallAllCommand) /\ ~manifest.exists) =>
          /\ stdout' = {<<"toy-package.json not found.">>}
          /\ stderr' = {}
          /\ ~crashed'
          /\ tasks' = <<>>
          /\ dirs' = dirs
          /\ lock' = lock
          /\ manifest' = manifest]_vars

\* One of the two commands ran without a manifest in a project whose module
\* tree is not empty (an earlier install failed before it wrote the
\* manifest).
C22_Witness ==
    /\ argv.verb \in {"installAll", "uninstallAll"}
    /\ ~manifest.exists
    /\ stdout = {<<"toy-package.json not found.">>}
    /\ tasks = <<>>
    /\ \E n \in Names : dirs[n].exists /\ dirs[n].tgz # {}

\* C23, as stated: no two pipelines that are in flight at the same time are
\* for the same package name.
C23_InFlightNamesDistinct ==
    \A i, j \in Pipelines :
        (i # j /\ tasks[i].pc \in InFlight /\ tasks[j].pc \in InFlight)
        => tasks[i].name # tasks[j].name

\* C23, amended: two pipelines in flight at the same time are for different
\* entries of the manifest: they differ in name or in group.  A name listed
\* in both groups has one pipeline per group, and the two can be in flight
\* together once the limit is 2 or more.
C23_InFlightEntriesDistinct ==
    \A i, j \in Pipelines :
        (i # j /\ tasks[i].pc \in InFlight /\ tasks[j].pc \in InFlight
         /\ tasks[i].name = tasks[j].name)
        => /\ tasks[i].isDev # tasks[j].isDev
           /\ argv.verb = "installAll"
           /\ concurrencyLimit(Len(tasks)) >= 2

\* Two pipelines for the same name and version are in flight, one writing
\* the tarball the other is about to extract.
C23_Witness ==
    \E i, j \in Pipelines :
        /\ i # j
        /\ tasks[i].name = tasks[j].name
        /\ tasks[i].pc = "writing"
        /\ tasks[j].pc = "extracting"
        /\ tasks[i].resolved = tasks[j].resolved

\* The names of the manifest's two groups.
ManifestNames == KeySet(manifest.dependencies) \cup KeySet(manifest.devDependencies)

\* C24: starting from no manifest, no lock file and no module directory,
\* in every state the commands reach the names of the lock file are names
\* of the manifest, and every name of the manifest has a module directory.
C24_LockWithinManifestWithinTree ==
    /\ KeySet(lock.data) \subseteq ManifestNames
    /\ \A n \in ManifestNames : dirs[n].exists

\* No command is running; the lock file is not empty and the manifest lists
\* a name the lock file lacks (the lock step of its install failed).
C24_Witness ==
    /\ ~Running
    /\ lock.data # <<>>
    /\ KeySet(lock.data) # ManifestNames

\* C25: an install from the manifest keeps the membership of the groups.
\* No step of it adds a name to a group, drops one, or moves or copies one
\* to the other group (the keys of each group and their order stay), and the
\* project's own fields stay; so when all its pipelines have succeeded the
\* groups list the names they listed when it started, which are the names
\* of its pipelines.
C25_InstallAllKeepsGroups ==
    [][(argv.verb = "installAll" /\ ncmds' = ncmds) =>
          /\ Keys(manifest'.dependencies) = Keys(manifest.dependencies)
          /\ Keys(manifest'.devDependencies) = Keys(manifest.devDependencies)
          /\ manifest'.name = manifest.name
          /\ manifest'.exists = manifest.exists
          /\ (tasks' # <<>> =>
                 \A d \in BOOLEAN :
                     KeySet(Group(manifest', d))
                         = {tasks'[i].name : i \in {k \in 1..Len(tasks') : tasks'[k].isDev = d}})]_vars

\* An install from a manifest with a dev entry and at least two entries in
\* all has completed, every pipeline successful.
C25_Witness ==
    /\ argv.verb = "installAll"
    /\ Len(tasks) >= 2
    /\ \A i \in Pipelines : tasks[i].pc = "done"
    /\ manifest.devDependencies # <<>>

====
